---- MODULE Spec2Model ----
(***************************************************************************)
(* A model of src/images/smaa/utils/SMAAImageLoader.js: the generate()     *)
(* helper (one worker per call, optional localStorage write) and           *)
(* SMAAImageLoader.load() (two loading managers, cache lookup, two images, *)
(* one returned promise).                                                  *)
(*                                                                         *)
(* JavaScript runs every handler to completion, so each handler is one     *)
(* action.  Promise reactions are jobs of the microtask queue `jobs`; the  *)
(* event handlers (worker message, worker error, image load) are tasks and *)
(* run only when the microtask queue is empty.  `trace[c]` is the sequence *)
(* of calls that load() call c and its handlers made, in program order.    *)
(***************************************************************************)
EXTENDS Naturals, Sequences, FiniteSets

\* ------------------------------------------------------------------ bounds

\* Number of load() calls on the one loader (they may overlap).
NumCalls == 2

\* Items the caller's shared loading manager is tracking besides this loader's.
MaxOtherItems == 1

Calls == 1..NumCalls

\* Events a misbehaving worker sends beyond the one answer to its trigger.
MaxExtraResponses == 1

\* ------------------------------------------------------------ value domains

null == "null"

ImageNames == {"search", "area"}

\* The two fixed localStorage keys / loading-manager item names.
KeyOf(name) == IF name = "search" THEN "smaa-search" ELSE "smaa-area"

\* event.data of the worker's message event: the worker program takes no
\* input, so its result is one fixed pair of buffers, or a malformed message.
Payloads ==
    { [searchImageData |-> "A", areaImageData |-> "B"],
      [searchImageData |-> "A", areaImageData |-> "undefined"] }

\* event.error of the worker's error event.
WorkerErrors == {"E1", "E2"}

\* Strings found in localStorage before the first load().
StoredStrings == {"data:S0", "data:A0"}

\* RawImageData.from(data).toCanvas().toDataURL(): the encoded image.
toDataURL(raw) == "data:" \o raw

\* RawImageData.from(undefined) dereferences its argument and throws.
ConversionThrows(data) ==
    data.searchImageData = "undefined" \/ data.areaImageData = "undefined"

\* The urls array built by the message listener.
EncodedURLs(data) ==
    <<toDataURL(data.searchImageData), toDataURL(data.areaImageData)>>

\* --------------------------------------------------------------- the state

VARIABLES
    disableCache,     \* SMAAImageLoader.disableCache
    hasLocalStorage,  \* window.localStorage !== undefined
    localStorage,     \* key -> string or null
    externalManager,  \* this.loadingManager: [itemsTotal, itemsLoaded]
    otherPending,     \* items of other loaders still pending on externalManager
    internalManager,  \* per call: [itemsTotal, itemsLoaded]
    result,           \* per call: image name -> src (null until assigned)
    listening,        \* per call: images with a "load" listener
    fired,            \* per call: images whose "load" event has fired
    promise,          \* per call: the promise load() chains on (cached or generate())
    loadPromise,      \* per call: the promise load() returns
    worker,           \* per call: the worker generate() created and its blob URL
    jobs,             \* the microtask queue: <<call, reaction>>
    trace,            \* per call: the calls made, in order
    uncaught          \* per call: exceptions that escaped an event listener

vars == <<disableCache, hasLocalStorage, localStorage, externalManager,
          otherPending, internalManager, result, listening, fired, promise,
          loadPromise, worker, jobs, trace, uncaught>>

NoData == [searchImageData |-> "none", areaImageData |-> "none"]

NoPromise == [state |-> "none", value |-> <<>>]

NoWorker ==
    [ created   |-> FALSE,   \* new Worker(workerURL) ran
      urlLive   |-> FALSE,   \* workerURL created and not revoked
      running   |-> FALSE,   \* execution context alive
      listeners |-> {},      \* event types with a listener
      posted    |-> 0,       \* postMessage calls
      responses |-> 0,       \* message / error events delivered
      revoked   |-> 0,       \* URL.revokeObjectURL calls
      useCache  |-> FALSE,   \* !disableCache as passed to generate()
      data      |-> NoData ] \* event.data of the last message event

\* A call made by the program: <<object, method, argument>>.
Ev(target, op, arg) == <<target, op, arg>>

\* --------------------------------------------------- three's LoadingManager

\* LoadingManager.itemStart: one more item to load.
itemStart(m) == [m EXCEPT !.itemsTotal = @ + 1]

\* LoadingManager.itemEnd: one more item loaded.
itemEnd(m) == [m EXCEPT !.itemsLoaded = @ + 1]

\* LoadingManager fires onLoad inside itemEnd when every item is loaded.
ManagerDone(m) == m.itemsLoaded = m.itemsTotal

NewManager == [itemsTotal |-> 0, itemsLoaded |-> 0]

\* Manager `name` after the calls of `calls` addressed to it, made in order.
RECURSIVE Applied(_, _, _)
Applied(m, name, calls) ==
    IF calls = <<>> THEN m
    ELSE LET call == Head(calls)
             next == IF call[1] # name THEN m
                     ELSE IF call[2] = "itemStart" THEN itemStart(m)
                     ELSE IF call[2] = "itemEnd" THEN itemEnd(m)
                     ELSE m
         IN Applied(next, name, Tail(calls))


\* Mutant of StartCalls: the internal manager is started first.
StartCallsInternalFirst ==
    << Ev("internalManager", "itemStart", "smaa-search"),
       Ev("internalManager", "itemStart", "smaa-area"),
       Ev("externalManager", "itemStart", "smaa-search"),
       Ev("externalManager", "itemStart", "smaa-area") >>

\* Lines 100-103: the four itemStart calls, in program order.
StartCalls ==
    << Ev("externalManager", "itemStart", "smaa-search"),
       Ev("externalManager", "itemStart", "smaa-area"),
       Ev("internalManager", "itemStart", "smaa-search"),
       Ev("internalManager", "itemStart", "smaa-area") >>

Init ==
    /\ disableCache \in BOOLEAN
    /\ hasLocalStorage \in BOOLEAN
    /\ localStorage \in [{"smaa-search", "smaa-area"} -> StoredStrings \cup {null}]
    /\ hasLocalStorage = FALSE => \A k \in DOMAIN localStorage : localStorage[k] = null
    /\ localStorage["smaa-search"] # "data:A0"
    /\ localStorage["smaa-area"] # "data:S0"
    /\ otherPending \in 0..MaxOtherItems
    /\ externalManager = [itemsTotal |-> otherPending, itemsLoaded |-> 0]
    /\ internalManager = [c \in Calls |-> NewManager]
    /\ result = [c \in Calls |-> [n \in ImageNames |-> null]]
    /\ listening = [c \in Calls |-> {}]
    /\ fired = [c \in Calls |-> {}]
    /\ promise = [c \in Calls |-> NoPromise]
    /\ loadPromise = [c \in Calls |-> NoPromise]
    /\ worker = [c \in Calls |-> NoWorker]
    /\ jobs = <<>>
    /\ trace = [c \in Calls |-> <<>>]
    /\ uncaught = [c \in Calls |-> <<>>]

\* ------------------------------------------------------------ promise helpers

\* resolve()/reject() of a promise: only a pending promise changes.
Settle(p, state, value) ==
    IF p.state = "pending" THEN [state |-> state, value |-> value] ELSE p

\* A reaction job is queued when a pending promise with a handler settles.
Enqueue(p, job) == IF p.state = "pending" THEN Append(jobs, job) ELSE jobs

\* ---------------------------------------------------------------- generate

\* Mutant of GenerateCalls: the trigger is posted before the listeners exist.
GenerateCallsPostFirst ==
    << Ev("URL", "createObjectURL", "workerURL"),
       Ev("Worker", "new", "workerURL"),
       Ev("worker", "postMessage", "null"),
       Ev("worker", "addEventListener", "error"),
       Ev("worker", "addEventListener", "message") >>

\* Lines 15-20 and 43: what generate() does before it returns, in order.
GenerateCalls ==
    << Ev("URL", "createObjectURL", "workerURL"),
       Ev("Worker", "new", "workerURL"),
       Ev("worker", "addEventListener", "error"),
       Ev("worker", "addEventListener", "message"),
       Ev("worker", "postMessage", "null") >>

\* The worker and blob URL generate(dc) holds when it returns.
SpawnedWorker(dc) ==
    [ created   |-> TRUE,
      urlLive   |-> TRUE,
      running   |-> TRUE,
      listeners |-> {"error", "message"},
      posted    |-> 1,
      responses |-> 0,
      revoked   |-> 0,
      useCache  |-> ~dc,
      data      |-> NoData ]

\* Mutant of WritesCache: the disableCache argument is ignored.
WritesCacheAlways(w) == hasLocalStorage

\* Line 31: the message listener writes the cache.
WritesCache(w) == w.useCache /\ hasLocalStorage

\* Mutant of StoreURLs: the area key is forgotten.
StoreURLsSearchOnly(store, urls) ==
    [store EXCEPT !["smaa-search"] = urls[1]]

\* Mutant of StoreURLs: the two keys are mixed up.
StoreURLsSwapped(store, urls) ==
    [store EXCEPT !["smaa-search"] = urls[2], !["smaa-area"] = urls[1]]

\* Lines 33-34: both setItem calls.
StoreURLs(store, urls) ==
    [store EXCEPT !["smaa-search"] = urls[1], !["smaa-area"] = urls[2]]

\* Lines 33-34 when setItem throws at key `at`: the writes before it remain.
StorePartial(store, urls, at) ==
    IF at = "smaa-search" THEN store
    ELSE [store EXCEPT !["smaa-search"] = urls[1]]

SetItemCalls ==
    << Ev("localStorage", "setItem", "smaa-search"),
       Ev("localStorage", "setItem", "smaa-area") >>

\* Lines 38-39: the listener's last two statements.
FinishCalls ==
    << Ev("URL", "revokeObjectURL", "workerURL"),
       Ev("generate", "resolve", "urls") >>

\* Line 38: the worker record after the message listener ran to its end.
AfterMessage(w) ==
    [w EXCEPT !.urlLive = FALSE, !.revoked = @ + 1]

\* The worker program (worker.tmp) ends its own execution context once it
\* has posted its result; generate() itself never calls worker.terminate().
WorkerClosed(w) == [w EXCEPT !.running = FALSE]

\* Line 21: the message event reaches the listener.
Received(w, data) == [WorkerClosed(w) EXCEPT !.responses = @ + 1, !.data = data]

\* Line 20: the worker record after the error listener ran.  It releases nothing.
AfterError(w) == [w EXCEPT !.responses = @ + 1]

\* The worker answers a trigger once.
CanRespond(c, type) ==
    /\ jobs = <<>>
    /\ worker[c].created
    /\ type \in worker[c].listeners
    /\ worker[c].responses < worker[c].posted

\* Lines 21-41: the "message" listener, with event.data = data.  setItemThrows
\* names the key at which localStorage.setItem throws, or "none".
MessageListener(c, data, setItemThrows) ==
    /\ setItemThrows # "none" => (WritesCache(worker[c]) /\ ~ConversionThrows(data))
    /\ IF ConversionThrows(data)
       THEN /\ uncaught' = [uncaught EXCEPT ![c] = Append(@, "TypeError")]
            /\ trace' = [trace EXCEPT ![c] =
                            Append(@, Ev("RawImageData", "from", "TypeError"))]
            /\ worker' = [worker EXCEPT ![c] = Received(@, data)]
            /\ UNCHANGED <<localStorage, promise, jobs>>
       ELSE LET urls == EncodedURLs(data) IN
            IF setItemThrows # "none"
            THEN /\ localStorage' = StorePartial(localStorage, urls, setItemThrows)
                 /\ uncaught' = [uncaught EXCEPT ![c] = Append(@, "QuotaExceededError")]
                 /\ trace' = [trace EXCEPT ![c] =
                                 @ \o (IF setItemThrows = "smaa-area"
                                       THEN <<SetItemCalls[1]>> ELSE <<>>)
                                   \o <<Ev("localStorage", "setItem", "QuotaExceededError")>>]
                 /\ worker' = [worker EXCEPT ![c] = Received(@, data)]
                 /\ UNCHANGED <<promise, jobs>>
            ELSE /\ localStorage' = IF WritesCache(worker[c])
                                    THEN StoreURLs(localStorage, urls)
                                    ELSE localStorage
                 /\ trace' = [trace EXCEPT ![c] =
                                 @ \o (IF WritesCache(worker[c]) THEN SetItemCalls ELSE <<>>)
                                   \o FinishCalls]
                 /\ worker' = [worker EXCEPT ![c] = AfterMessage(Received(@, data))]
                 /\ promise' = [promise EXCEPT ![c] = Settle(@, "resolved", urls)]
                 /\ jobs' = Enqueue(promise[c], <<c, "then">>)
                 /\ UNCHANGED uncaught
    /\ UNCHANGED <<disableCache, hasLocalStorage, externalManager, otherPending,
                   internalManager, result, listening, fired, loadPromise>>

\* The worker answers its trigger with a message event.
WorkerMessage(c, data, setItemThrows) ==
    /\ CanRespond(c, "message")
    /\ MessageListener(c, data, setItemThrows)

\* Line 20: the "error" listener, with event.error = e.
ErrorListener(c, e) ==
    /\ worker' = [worker EXCEPT ![c] = AfterError(@)]
    /\ promise' = [promise EXCEPT ![c] = Settle(@, "rejected", <<e>>)]
    /\ jobs' = Enqueue(promise[c], <<c, "thenReject">>)
    /\ trace' = [trace EXCEPT ![c] = Append(@, Ev("generate", "reject", e))]
    /\ UNCHANGED <<disableCache, hasLocalStorage, localStorage, externalManager,
                   otherPending, internalManager, result, listening, fired,
                   loadPromise, uncaught>>

\* The worker answers its trigger with an error event.
WorkerError(c, e) ==
    /\ CanRespond(c, "error")
    /\ ErrorListener(c, e)

\* -------------------------------------------------------------------- load

\* Line 119: the cache is consulted.
ReadsCache == ~disableCache /\ hasLocalStorage

\* Lines 119-122: cachedURLs.
cachedURLs ==
    IF ReadsCache
    THEN <<localStorage["smaa-search"], localStorage["smaa-area"]>>
    ELSE <<null, null>>

GetItemCalls ==
    << Ev("localStorage", "getItem", "smaa-search"),
       Ev("localStorage", "getItem", "smaa-area") >>

\* Mutant of IsCacheHit: one cached URL is enough.
IsCacheHitEither(urls) == urls[1] # null \/ urls[2] # null

\* Mutant of IsCacheHit: the cache is never trusted.
IsCacheHitNever(urls) == FALSE

\* Line 124: both cached URLs are present.
IsCacheHit(urls) == urls[1] # null /\ urls[2] # null

\* Lines 95-158: the synchronous part of load().  storageThrows: reading
\* window.localStorage throws (storage access denied); line 119 evaluates it
\* only when disableCache is false.  A throw inside the promise executor
\* rejects the returned promise; no handler of lines 127-154 is attached yet.
load(c, storageThrows) ==
    /\ loadPromise[c].state = "none"
    /\ \A d \in Calls : d < c => loadPromise[d].state # "none"
    /\ storageThrows => ~disableCache
    /\ externalManager' = Applied(externalManager, "externalManager", StartCalls)
    /\ internalManager' = [internalManager EXCEPT ![c] =
                               Applied(NewManager, "internalManager", StartCalls)]
    /\ IF storageThrows
       THEN /\ loadPromise' = [loadPromise EXCEPT ![c] =
                                  [state |-> "rejected", value |-> "SecurityError"]]
            /\ trace' = [trace EXCEPT ![c] =
                            StartCalls \o <<Ev("window", "localStorage", "SecurityError")>>]
            /\ UNCHANGED <<promise, worker, jobs>>
       ELSE /\ loadPromise' = [loadPromise EXCEPT ![c] =
                                  [state |-> "pending", value |-> ""]]
            /\ IF IsCacheHit(cachedURLs)
               THEN /\ promise' = [promise EXCEPT ![c] =
                                      [state |-> "resolved", value |-> cachedURLs]]
                    /\ jobs' = Append(jobs, <<c, "then">>)
                    /\ trace' = [trace EXCEPT ![c] =
                                    StartCalls \o (IF ReadsCache THEN GetItemCalls ELSE <<>>)]
                    /\ UNCHANGED worker
               ELSE /\ promise' = [promise EXCEPT ![c] =
                                      [state |-> "pending", value |-> <<>>]]
                    /\ worker' = [worker EXCEPT ![c] = SpawnedWorker(disableCache)]
                    /\ trace' = [trace EXCEPT ![c] =
                                    StartCalls \o (IF ReadsCache THEN GetItemCalls ELSE <<>>)
                                               \o GenerateCalls]
                    /\ UNCHANGED jobs
    /\ UNCHANGED <<disableCache, hasLocalStorage, localStorage, otherPending,
                   result, listening, fired, uncaught>>

\* Lines 143-144: the sources assigned from the urls array.
Sources(urls) == [n \in ImageNames |-> IF n = "search" THEN urls[1] ELSE urls[2]]

\* Lines 129-144: the calls of the fulfilment handler, in order.
ThenCalls(urls) ==
    << Ev("result.search", "addEventListener", "load"),
       Ev("result.area", "addEventListener", "load"),
       Ev("result.search", "src", urls[1]),
       Ev("result.area", "src", urls[2]) >>

\* Lines 127-144: promise.then's handler, run as a microtask.
ThenFulfilled(c) ==
    /\ jobs # <<>> /\ Head(jobs) = <<c, "then">>
    /\ jobs' = Tail(jobs)
    /\ listening' = [listening EXCEPT ![c] = ImageNames]
    /\ result' = [result EXCEPT ![c] = Sources(promise[c].value)]
    /\ trace' = [trace EXCEPT ![c] = @ \o ThenCalls(promise[c].value)]
    /\ UNCHANGED <<disableCache, hasLocalStorage, localStorage, externalManager,
                   otherPending, internalManager, fired, promise, loadPromise,
                   worker, uncaught>>

\* Line 127 on rejection: then() has no rejection handler, so the promise it
\* returned rejects and the catch() reaction is queued behind the other jobs.
ThenRejected(c) ==
    /\ jobs # <<>> /\ Head(jobs) = <<c, "thenReject">>
    /\ jobs' = Append(Tail(jobs), <<c, "catch">>)
    /\ UNCHANGED <<disableCache, hasLocalStorage, localStorage, externalManager,
                   otherPending, internalManager, result, listening, fired,
                   promise, loadPromise, worker, trace, uncaught>>

\* Mutant of CatchCalls: each failed item is also reported as ended.
CatchCallsAlsoEnd(error) ==
    << Ev("externalManager", "itemError", "smaa-search"),
       Ev("externalManager", "itemEnd", "smaa-search"),
       Ev("externalManager", "itemError", "smaa-area"),
       Ev("externalManager", "itemEnd", "smaa-area"),
       Ev("callback", "onError", error),
       Ev("load", "reject", error) >>

\* Mutant of CatchCalls: the area item is never reported as failed.
CatchCallsSearchOnly(error) ==
    << Ev("externalManager", "itemError", "smaa-search"),
       Ev("callback", "onError", error),
       Ev("load", "reject", error) >>

\* Mutant of CatchCalls: the promise is rejected before onError is told.
CatchCallsRejectFirst(error) ==
    << Ev("externalManager", "itemError", "smaa-search"),
       Ev("externalManager", "itemError", "smaa-area"),
       Ev("load", "reject", error),
       Ev("callback", "onError", error) >>

\* Lines 148-152: the calls of the rejection handler, in order.
CatchCalls(error) ==
    << Ev("externalManager", "itemError", "smaa-search"),
       Ev("externalManager", "itemError", "smaa-area"),
       Ev("callback", "onError", error),
       Ev("load", "reject", error) >>

\* Lines 146-154: the catch() handler.  LoadingManager.itemError only
\* notifies; it does not count the item as loaded.
CatchHandler(c) ==
    /\ jobs # <<>> /\ Head(jobs) = <<c, "catch">>
    /\ jobs' = Tail(jobs)
    /\ trace' = [trace EXCEPT ![c] = @ \o CatchCalls(promise[c].value[1])]
    /\ externalManager' = Applied(externalManager, "externalManager",
                                  CatchCalls(promise[c].value[1]))
    /\ internalManager' = [internalManager EXCEPT ![c] =
                               Applied(@, "internalManager",
                                       CatchCalls(promise[c].value[1]))]
    /\ loadPromise' = [loadPromise EXCEPT ![c] =
                          Settle(@, "rejected", promise[c].value[1])]
    /\ UNCHANGED <<disableCache, hasLocalStorage, localStorage, otherPending,
                   result, listening, fired, promise, worker, uncaught>>

\* Mutant of EndCalls: the shared external manager is told twice.
EndCallsExternalTwice(n) ==
    << Ev("externalManager", "itemEnd", KeyOf(n)),
       Ev("externalManager", "itemEnd", KeyOf(n)),
       Ev("internalManager", "itemEnd", KeyOf(n)) >>

\* Lines 131-132 / 138-139: the calls of an image's "load" listener.
EndCalls(n) ==
    << Ev("externalManager", "itemEnd", KeyOf(n)),
       Ev("internalManager", "itemEnd", KeyOf(n)) >>

\* Lines 114-115: internalManager.onLoad.
OnLoadCalls ==
    << Ev("callback", "onLoad", "result"),
       Ev("load", "resolve", "result") >>

\* Mutant of FiresOnLoad: the callback runs at every itemEnd.
FiresOnLoadAlways(ext, int) == TRUE

\* Mutant of FiresOnLoad: the callback hangs on the external manager.
FiresOnLoadExternal(ext, int) == ManagerDone(ext)

\* Lines 112-117: internalManager.onLoad runs inside the itemEnd that
\* completes the internal manager; ext and int are the managers after the
\* listener's two itemEnd calls.
FiresOnLoad(ext, int) == ManagerDone(int)

\* Lines 129-141: the "load" listener of image n of call c.  The image fires
\* "load" once, after its src is assigned.
ImageLoad(c, n) ==
    /\ jobs = <<>>
    /\ n \in listening[c]
    /\ result[c][n] # null
    /\ n \notin fired[c]
    /\ fired' = [fired EXCEPT ![c] = @ \cup {n}]
    /\ externalManager' = Applied(externalManager, "externalManager", EndCalls(n))
    /\ internalManager' = [internalManager EXCEPT ![c] =
                               Applied(@, "internalManager", EndCalls(n))]
    /\ LET done == FiresOnLoad(externalManager', internalManager'[c]) IN
        /\ trace' = [trace EXCEPT ![c] =
                        @ \o EndCalls(n) \o (IF done THEN OnLoadCalls ELSE <<>>)]
        /\ loadPromise' = [loadPromise EXCEPT ![c] =
                              IF done THEN Settle(@, "resolved", "result") ELSE @]
    /\ UNCHANGED <<disableCache, hasLocalStorage, localStorage, otherPending,
                   result, listening, promise, worker, jobs, uncaught>>

\* ------------------------------------------------------------ the environment

\* The caller assigns loader.disableCache.  Only load() reads the field, so
\* the assignment is modelled while a load() is still to come.
SetDisableCache(b) ==
    /\ b # disableCache
    /\ \E c \in Calls : loadPromise[c].state = "none"
    /\ disableCache' = b
    /\ UNCHANGED <<hasLocalStorage, localStorage, externalManager, otherPending,
                   internalManager, result, listening, fired, promise,
                   loadPromise, worker, jobs, trace, uncaught>>

\* Another loader's item on the shared external manager ends.
OtherItemEnd ==
    /\ jobs = <<>>
    /\ otherPending > 0
    /\ otherPending' = otherPending - 1
    /\ externalManager' = itemEnd(externalManager)
    /\ UNCHANGED <<disableCache, hasLocalStorage, localStorage, internalManager,
                   result, listening, fired, promise, loadPromise, worker, jobs,
                   trace, uncaught>>

Next ==
    \/ \E c \in Calls, storageThrows \in BOOLEAN : load(c, storageThrows)
    \/ \E c \in Calls, data \in Payloads,
          setItemThrows \in {"none", "smaa-search", "smaa-area"} :
            WorkerMessage(c, data, setItemThrows)
    \/ \E c \in Calls, e \in WorkerErrors : WorkerError(c, e)
    \/ \E c \in Calls : ThenFulfilled(c)
    \/ \E c \in Calls : ThenRejected(c)
    \/ \E c \in Calls : CatchHandler(c)
    \/ \E c \in Calls, n \in ImageNames : ImageLoad(c, n)
    \/ \E b \in BOOLEAN : SetDisableCache(b)
    \/ OtherItemEnd

Spec == Init /\ [][Next]_vars

\* --------------------------------------------------- a misbehaving worker

\* A worker that breaks its contract sends further events after its answer.
CanRespondAgain(c, type) ==
    /\ jobs = <<>>
    /\ worker[c].created
    /\ type \in worker[c].listeners
    /\ worker[c].responses >= worker[c].posted
    /\ worker[c].responses < worker[c].posted + MaxExtraResponses

\* A further message event reaches the listener of lines 21-41, which is
\* still registered.
WorkerMessageAgain(c, data, setItemThrows) ==
    /\ CanRespondAgain(c, "message")
    /\ MessageListener(c, data, setItemThrows)

\* A further error event reaches the listener of line 20.
WorkerErrorAgain(c, e) ==
    /\ CanRespondAgain(c, "error")
    /\ ErrorListener(c, e)

NextMisbehaving ==
    \/ Next
    \/ \E c \in Calls, data \in Payloads,
          setItemThrows \in {"none", "smaa-search", "smaa-area"} :
            WorkerMessageAgain(c, data, setItemThrows)
    \/ \E c \in Calls, e \in WorkerErrors : WorkerErrorAgain(c, e)

SpecMisbehaving == Init /\ [][NextMisbehaving]_vars

\* ------------------------------------------------- reading the call traces

Managers == {"externalManager", "internalManager"}

ItemNames == {"smaa-search", "smaa-area"}

\* How often the call e occurs in a sequence of calls.
CountIn(calls, e) == Cardinality({i \in DOMAIN calls : calls[i] = e})

\* How often call c made the call e.
Count(c, e) == CountIn(trace[c], e)

\* The calls made on the two trackers.
IsTrackerCall(e) == e[2] \in {"itemStart", "itemEnd", "itemError"}

TrackerCalls(c) == SelectSeq(trace[c], IsTrackerCall)

\* How often the terminal calls (itemEnd or itemError) for item k on manager
\* m occur in a sequence of calls.
Terminals(calls, m, k) ==
    CountIn(calls, <<m, "itemEnd", k>>) + CountIn(calls, <<m, "itemError", k>>)

\* Call c went through the cache lookup without a throw: its outcome is a
\* cache hit, a generation or a compute-unit error.
LookedUp(c) == promise[c].state # "none"

\* Call c's cache lookup missed: generate() ran for it.
Generated(c) == worker[c].created

\* Call c's cache lookup hit.
CacheHit(c) == LookedUp(c) /\ ~worker[c].created

\* The worker's error event e reached call c's generate().
ErrorEvent(c, e) == Count(c, <<"generate", "reject", e>>) > 0

\* The calls that report an outcome: terminal tracker calls, callbacks and
\* the settling of the returned promise.
IsOutcomeCall(e) ==
    \/ e[2] \in {"itemEnd", "itemError", "onLoad", "onError"}
    \/ e[1] = "load"

OutcomeCalls(c) == SelectSeq(trace[c], IsOutcomeCall)

\* ---------------------------------------------------------------------- C1

\* C1 as stated: for every load() call that ends as a cache hit, a successful
\* generation or a compute-unit error, each tracker gets exactly one start
\* per unit, never more than one terminal call per unit, and exactly one
\* terminal call per unit once the returned promise has settled.
C1_EveryTrackerTerminal ==
    \A c \in Calls : LookedUp(c) =>
        LET calls == TrackerCalls(c) IN
        \A m \in Managers, k \in ItemNames :
            /\ CountIn(calls, <<m, "itemStart", k>>) = 1
            /\ Terminals(calls, m, k) <= 1
            /\ loadPromise[c].state \in {"resolved", "rejected"} =>
                  Terminals(calls, m, k) = 1

\* C1 amended: exactly one start per unit on each tracker and at most one
\* terminal call per unit; when the promise has resolved (cache hit or
\* generation) each tracker got exactly one itemEnd and no itemError per
\* unit; when it has rejected (compute-unit error) the external tracker got
\* exactly one itemError and no itemEnd per unit and the internal tracker got
\* no terminal call.
C1_EventMultiplicity ==
    \A c \in Calls : LookedUp(c) =>
        LET calls == TrackerCalls(c) IN
        \A k \in ItemNames :
            /\ \A m \in Managers :
                /\ CountIn(calls, <<m, "itemStart", k>>) = 1
                /\ Terminals(calls, m, k) <= 1
                /\ loadPromise[c].state = "resolved" =>
                      /\ CountIn(calls, <<m, "itemEnd", k>>) = 1
                      /\ CountIn(calls, <<m, "itemError", k>>) = 0
            /\ loadPromise[c].state = "rejected" =>
                  /\ CountIn(calls, <<"externalManager", "itemError", k>>) = 1
                  /\ CountIn(calls, <<"externalManager", "itemEnd", k>>) = 0
                  /\ Terminals(calls, "internalManager", k) = 0

\* One call resolved after a generation, another rejected after a worker error.
C1_Witness ==
    \E c, d \in Calls :
        /\ Generated(c) /\ loadPromise[c].state = "resolved"
        /\ Generated(d) /\ loadPromise[d].state = "rejected"

\* ---------------------------------------------------------------------- C2

\* C2: after the worker's error event carrying e, the outcome calls of that
\* load() are nothing until the catch handler runs and then exactly
\* external itemError(search), external itemError(area), onError(e),
\* reject(e), in that order; the returned promise is rejected with e exactly
\* when those calls were made; no itemEnd, no internal terminal call and no
\* onLoad is ever made.
C2_ErrorPath ==
    \A c \in Calls : \A e \in WorkerErrors : ErrorEvent(c, e) =>
        LET expected == << <<"externalManager", "itemError", "smaa-search">>,
                           <<"externalManager", "itemError", "smaa-area">>,
                           <<"callback", "onError", e>>,
                           <<"load", "reject", e>> >>
            made == OutcomeCalls(c)
        IN  /\ made \in {<<>>, expected}
            /\ loadPromise[c].state = "rejected" <=> made = expected
            /\ loadPromise[c].state = "rejected" => loadPromise[c].value = e
            /\ loadPromise[c].state \in {"pending", "rejected"}

\* The error event E1 arrived and the returned promise has rejected.
C2_Witness ==
    \E c \in Calls : ErrorEvent(c, "E1") /\ loadPromise[c].state = "rejected"

\* ---------------------------------------------------------------------- C3

\* This step is call c's load(), and its cache lookup did not throw.
LoadStep(c) == loadPromise[c].state = "none" /\ loadPromise'[c].state = "pending"

\* Caching is enabled, the store exists and holds both keys.
BothCached ==
    /\ ~disableCache /\ hasLocalStorage
    /\ localStorage["smaa-search"] # null
    /\ localStorage["smaa-area"] # null

\* C3: a load() called while caching is enabled, the store exists and both
\* keys are present chains on the two cached strings and creates and
\* triggers no worker; no worker is created for that call later either; and
\* the sources its handler assigns are the cached search string and the
\* cached area string, in that order.
C3_CacheHit ==
    [][\A c \in Calls :
        /\ (LoadStep(c) /\ BothCached) =>
              /\ promise'[c] = [state |-> "resolved",
                                value |-> <<localStorage["smaa-search"],
                                            localStorage["smaa-area"]>>]
              /\ ~worker'[c].created /\ worker'[c].posted = 0
              /\ Count(c, <<"Worker", "new", "workerURL">>)' = 0
              /\ Count(c, <<"worker", "postMessage", "null">>)' = 0
        /\ CacheHit(c) => (CacheHit(c))' /\ promise'[c] = promise[c] /\ worker'[c] = worker[c]
        /\ (CacheHit(c) /\ result'[c] # result[c]) =>
              /\ result'[c]["search"] = promise[c].value[1]
              /\ result'[c]["area"] = promise[c].value[2]
      ]_vars

\* A cache-hit call has its two sources assigned, and they differ.
C3_Witness ==
    \E c \in Calls :
        /\ CacheHit(c)
        /\ result[c]["search"] = "data:S0"
        /\ result[c]["area"] = "data:A0"

\* ---------------------------------------------------------------------- C4

\* The cache cannot serve the call: caching disabled, no store, or a key absent.
NotBothCached ==
    \/ disableCache
    \/ ~hasLocalStorage
    \/ localStorage["smaa-search"] = null
    \/ localStorage["smaa-area"] = null

\* C4: a load() called while caching is disabled, no store exists or either
\* key is absent creates exactly one worker and posts exactly one trigger to
\* it, and no later step of that call creates or triggers another.
C4_CacheMiss ==
    [][\A c \in Calls :
        /\ (LoadStep(c) /\ NotBothCached) =>
              /\ worker'[c].created /\ worker'[c].posted = 1
              /\ Count(c, <<"Worker", "new", "workerURL">>)' = 1
              /\ Count(c, <<"worker", "postMessage", "null">>)' = 1
        /\ Generated(c) =>
              /\ worker'[c].created /\ worker'[c].posted = 1
              /\ trace'[c] # trace[c] =>
                    /\ Count(c, <<"Worker", "new", "workerURL">>)' = 1
                    /\ Count(c, <<"worker", "postMessage", "null">>)' = 1
      ]_vars

\* The store held only the search key, caching was on, and the call generated.
C4_Witness ==
    \E c \in Calls :
        /\ Generated(c) /\ worker[c].useCache /\ hasLocalStorage
        /\ Count(c, <<"localStorage", "getItem", "smaa-area">>) = 1
        /\ localStorage["smaa-search"] = "data:S0"
        /\ localStorage["smaa-area"] = null

\* ---------------------------------------------------------------------- C5

\* The internal tracker of call c received itemEnd for both units.
InternalEnded(c) ==
    LET calls == TrackerCalls(c) IN
    /\ CountIn(calls, <<"internalManager", "itemEnd", "smaa-search">>) >= 1
    /\ CountIn(calls, <<"internalManager", "itemEnd", "smaa-area">>) >= 1

\* C5: the returned promise is resolved exactly when the internal tracker
\* has received itemEnd for both units; the last three calls of a resolved
\* load() are the internal itemEnd that completed it, onLoad(result) and
\* resolve(result), in that order, each of the last two made once.
C5_ResolutionIndependence ==
    \A c \in Calls :
        /\ loadPromise[c].state = "resolved" <=> InternalEnded(c)
        /\ loadPromise[c].state = "resolved" =>
              LET n == Len(trace[c]) IN
              /\ n >= 3
              /\ trace[c][n - 2][1] = "internalManager"
              /\ trace[c][n - 2][2] = "itemEnd"
              /\ trace[c][n - 1] = <<"callback", "onLoad", "result">>
              /\ trace[c][n] = <<"load", "resolve", "result">>
              /\ CountIn(OutcomeCalls(c), <<"callback", "onLoad", "result">>) = 1
              /\ CountIn(OutcomeCalls(c), <<"load", "resolve", "result">>) = 1
              /\ loadPromise[c].value = "result"

\* A load() has resolved while the external manager still waits for another
\* loader's item.
C5_Witness ==
    \E c \in Calls :
        /\ loadPromise[c].state = "resolved"
        /\ otherPending > 0
        /\ externalManager.itemsLoaded < externalManager.itemsTotal

\* ---------------------------------------------------------------------- C6

\* C6 as stated: once generate()'s promise has settled, after a result
\* message or after an error event, the blob URL has been revoked exactly
\* once and the worker's execution context has been released.
C6_ResourceRelease ==
    \A c \in Calls :
        (Generated(c) /\ promise[c].state \in {"resolved", "rejected"}) =>
            /\ ~worker[c].urlLive
            /\ worker[c].revoked = 1
            /\ ~worker[c].running

\* ---------------------------------------------------------------------- C7

\* C7: the first four calls of every load() are external itemStart(search),
\* external itemStart(area), internal itemStart(search), internal
\* itemStart(area); they come before the cache read and the worker's
\* creation, and no other itemStart call is ever made for that load().
C7_StartOrdering ==
    \A c \in Calls : loadPromise[c].state # "none" =>
        /\ Len(trace[c]) >= 4
        /\ SubSeq(trace[c], 1, 4) =
              << <<"externalManager", "itemStart", "smaa-search">>,
                 <<"externalManager", "itemStart", "smaa-area">>,
                 <<"internalManager", "itemStart", "smaa-search">>,
                 <<"internalManager", "itemStart", "smaa-area">> >>
        /\ \A i \in DOMAIN trace[c] : trace[c][i][2] = "itemStart" => i <= 4
        /\ externalManager.itemsTotal >= 2
        /\ internalManager[c].itemsTotal = 2

\* A load() read the cache and created a worker after its four start calls.
C7_Witness ==
    \E c \in Calls :
        /\ Len(trace[c]) > 6
        /\ trace[c][5] = <<"localStorage", "getItem", "smaa-search">>
        /\ Count(c, <<"Worker", "new", "workerURL">>) = 1

\* ---------------------------------------------------------------------- C8

\* Call c generated with caching enabled and a store available.
GeneratedForCache(c) == Generated(c) /\ worker[c].useCache /\ hasLocalStorage

\* C8: when generate() of a caching call resolves, the store maps
\* "smaa-search" to the encoded search image and "smaa-area" to the encoded
\* area image of the worker's result; when that call's sources are assigned
\* they equal the two stored strings; and a load() made with caching enabled
\* after such a generation resolved is a cache hit.
C8_AtomicPersistence ==
    [][\A c \in Calls :
        /\ (GeneratedForCache(c) /\ promise[c].state = "pending"
                /\ promise'[c].state = "resolved") =>
              /\ localStorage'["smaa-search"] = "data:" \o worker'[c].data.searchImageData
              /\ localStorage'["smaa-area"] = "data:" \o worker'[c].data.areaImageData
              /\ promise'[c].value = <<localStorage'["smaa-search"], localStorage'["smaa-area"]>>
        /\ (GeneratedForCache(c) /\ result'[c] # result[c]) =>
              /\ result'[c]["search"] = localStorage'["smaa-search"]
              /\ result'[c]["area"] = localStorage'["smaa-area"]
              /\ result'[c]["search"] # null /\ result'[c]["area"] # null
        /\ (LoadStep(c) /\ ~disableCache
                /\ \E d \in Calls : GeneratedForCache(d) /\ promise[d].state = "resolved") =>
              /\ promise'[c].state = "resolved"
              /\ ~worker'[c].created
      ]_vars

\* One call generated A and B and stored them, and
\* a later call was served from the store.
C8_Witness ==
    \E c, d \in Calls :
        /\ GeneratedForCache(c) /\ loadPromise[c].state = "resolved"
        /\ result[c]["search"] = "data:A" /\ result[c]["area"] = "data:B"
        /\ localStorage["smaa-search"] = "data:A" /\ localStorage["smaa-area"] = "data:B"
        /\ CacheHit(d) /\ result[d] = result[c]
        /\ Count(c, <<"localStorage", "getItem", "smaa-search">>) = 1

\* ---------------------------------------------------------------------- C9

\* C9 as stated: when localStorage.setItem throws in the message listener,
\* generate() still resolves with the encoded pair and no exception escapes.
C9_BestEffortPersistence ==
    \A c \in Calls :
        Count(c, <<"localStorage", "setItem", "QuotaExceededError">>) > 0 =>
            /\ promise[c].state = "resolved"
            /\ promise[c].value = <<"data:" \o worker[c].data.searchImageData,
                                    "data:" \o worker[c].data.areaImageData>>
            /\ uncaught[c] = <<>>

\* --------------------------------------------------------------------- C10

\* C10 as stated: when reading the store throws inside load(), then once the
\* reaction jobs have run the external tracker has received itemError for
\* both units, onError has been called with the error and the returned
\* promise is rejected with it.
C10_ReadFailureRouted ==
    \A c \in Calls :
        (Count(c, <<"window", "localStorage", "SecurityError">>) > 0 /\ jobs = <<>>) =>
            /\ loadPromise[c] = [state |-> "rejected", value |-> "SecurityError"]
            /\ Count(c, <<"externalManager", "itemError", "smaa-search">>) = 1
            /\ Count(c, <<"externalManager", "itemError", "smaa-area">>) = 1
            /\ Count(c, <<"callback", "onError", "SecurityError">>) = 1

\* --------------------------------------------------------------------- C11

\* C11 as stated: when converting the worker's result payload throws,
\* generate() rejects, and once the reaction jobs have run load() has
\* rejected through its error path: external itemError for both units and
\* onError called.
C11_ConversionFailureRejects ==
    \A c \in Calls :
        Count(c, <<"RawImageData", "from", "TypeError">>) > 0 =>
            /\ promise[c].state = "rejected"
            /\ jobs = <<>> =>
                  /\ loadPromise[c].state = "rejected"
                  /\ Count(c, <<"externalManager", "itemError", "smaa-search">>) = 1
                  /\ Count(c, <<"externalManager", "itemError", "smaa-area">>) = 1
                  /\ Count(c, <<"callback", "onError", "TypeError">>) = 1

\* --------------------------------------------------------------------- C12

\* The calls made on the Worker constructor and on the worker.
IsWorkerCall(e) == e[1] \in {"Worker", "worker"}

\* C12: the calls generate() makes on its worker are, in this order, its
\* creation, addEventListener("error"), addEventListener("message") and one
\* postMessage(null), and no other; a worker that has delivered a response
\* had both listeners registered.
C12_ListenersBeforeTrigger ==
    \A c \in Calls : Generated(c) =>
        /\ SelectSeq(trace[c], IsWorkerCall) =
              << <<"Worker", "new", "workerURL">>,
                 <<"worker", "addEventListener", "error">>,
                 <<"worker", "addEventListener", "message">>,
                 <<"worker", "postMessage", "null">> >>
        /\ worker[c].posted = 1
        /\ worker[c].responses > 0 => worker[c].listeners = {"error", "message"}

\* A worker answered its trigger with a result and the listener consumed it.
C12_Witness ==
    \E c \in Calls :
        /\ Generated(c) /\ worker[c].responses = 1
        /\ promise[c].state = "resolved"

\* --------------------------------------------------------------------- C13

\* The source assignments and the terminal tracker calls.
IsSrcOrTerminal(e) == e[2] \in {"src", "itemEnd", "itemError"}

\* C13 as stated: every itemEnd or itemError call of a load() comes after
\* the assignment of both images' sources.
C13_TerminalAfterSource ==
    \A c \in Calls :
        LET calls == SelectSeq(trace[c], IsSrcOrTerminal) IN
        \A i \in DOMAIN calls :
            calls[i][2] \in {"itemEnd", "itemError"} =>
                /\ i > 2
                /\ calls[1][1] = "result.search" /\ calls[1][2] = "src"
                /\ calls[2][1] = "result.area" /\ calls[2][2] = "src"

\* C13 amended: every itemEnd call comes after the assignment of both
\* images' sources (search, then area); an itemError call is made only in a
\* load() that assigns no source at all.
C13_EndAfterSource ==
    \A c \in Calls :
        LET calls == SelectSeq(trace[c], IsSrcOrTerminal) IN
        \A i \in DOMAIN calls :
            /\ calls[i][2] = "itemEnd" =>
                  /\ i > 2
                  /\ calls[1][1] = "result.search" /\ calls[1][2] = "src"
                  /\ calls[2][1] = "result.area" /\ calls[2][2] = "src"
                  /\ \A n \in ImageNames : result[c][n] # null
            /\ calls[i][2] = "itemError" =>
                  /\ \A j \in DOMAIN calls : calls[j][2] # "src"
                  /\ \A n \in ImageNames : result[c][n] = null

\* One load() ended both items after assigning its sources; another made
\* its error calls with no source assigned.
C13_Witness ==
    \E c, d \in Calls :
        /\ fired[c] = ImageNames
        /\ Count(d, <<"externalManager", "itemError", "smaa-area">>) = 1
        /\ result[d]["search"] = null

\* --------------------------------------------------------------------- C14

\* The calls that touch the persistent store.
IsStoreCall(e) == e[1] \in {"localStorage", "window"}

\* This step is call c's load(), whatever its outcome.
LoadCalled(c) == loadPromise[c].state = "none" /\ loadPromise'[c].state # "none"

\* C14: the store changes only in the message listener of a call that
\* generated with caching enabled and a store present and whose worker
\* delivered a well-formed result; a load() made with disableCache true
\* makes no call on the store, neither in load() nor in its generate(); the
\* steps of a cache-hit call and the worker's error event leave the store
\* as it is.
C14_StoreFrame ==
    [][/\ localStorage' # localStorage =>
            \E c \in Calls :
                /\ Generated(c) /\ worker[c].useCache /\ hasLocalStorage
                /\ worker'[c].responses = worker[c].responses + 1
                /\ ~ConversionThrows(worker'[c].data)
       /\ \A c \in Calls :
            /\ (LoadCalled(c) /\ disableCache) =>
                  /\ SelectSeq(trace'[c], IsStoreCall) = <<>>
                  /\ worker'[c].created /\ ~worker'[c].useCache
            /\ (Generated(c) /\ ~worker[c].useCache /\ trace'[c] # trace[c]) =>
                  /\ SelectSeq(trace'[c], IsStoreCall) = <<>>
                  /\ localStorage' = localStorage
            /\ (CacheHit(c) /\ trace'[c] # trace[c]) => localStorage' = localStorage
            /\ (promise[c].state = "pending" /\ promise'[c].state = "rejected") =>
                  localStorage' = localStorage
      ]_vars

\* With a store present and empty, a load() made with caching disabled got
\* its result from the worker and the store is still empty.
C14_Witness ==
    \E c \in Calls :
        /\ Generated(c) /\ ~worker[c].useCache /\ hasLocalStorage
        /\ loadPromise[c].state = "resolved"
        /\ \A k \in ItemNames : localStorage[k] = null

\* --------------------------------------------------------------------- C15

\* Everything the liveness assumption promises call c has happened: its
\* worker (if it has one) answered its trigger, every reaction job ran, and
\* every image whose source was assigned fired "load".
AllDelivered(c) ==
    /\ loadPromise[c].state # "none"
    /\ jobs = <<>>
    /\ Generated(c) => worker[c].responses = worker[c].posted
    /\ \A n \in ImageNames : result[c][n] # null => n \in fired[c]

\* C15 as stated, in the form a finite run refutes: once the worker has
\* delivered its one response and the images have fired "load", the promise
\* load() returned has settled.
C15_SettlesOnceDelivered ==
    \A c \in Calls : AllDelivered(c) => loadPromise[c].state \in {"resolved", "rejected"}

\* --------------------------------------------------------------------- C16

\* C16 as stated: whatever a worker sends after its first response, the
\* blob URL is revoked at most once, each key is written at most once, and
\* each tracker unit gets at most one terminal call and each callback at
\* most one call per load().  Runs in which a listener threw are left to C9
\* and C11.
C16_SingleResponseConsumed ==
    \A c \in Calls : (Generated(c) /\ uncaught[c] = <<>>) =>
        /\ worker[c].revoked <= 1
        /\ Count(c, <<"localStorage", "setItem", "smaa-search">>) <= 1
        /\ Count(c, <<"localStorage", "setItem", "smaa-area">>) <= 1
        /\ \A m \in Managers, k \in ItemNames : Terminals(TrackerCalls(c), m, k) <= 1
        /\ Len(SelectSeq(trace[c], IsOutcomeCall)) <= 6

\* --------------------------------------------------------------------- C17

\* This step changes something that belongs to call c alone: its internal
\* manager, its images, its promises, its worker or its calls.
Touched(c) ==
    \/ internalManager'[c] # internalManager[c]
    \/ result'[c] # result[c]
    \/ listening'[c] # listening[c]
    \/ fired'[c] # fired[c]
    \/ promise'[c] # promise[c]
    \/ loadPromise'[c] # loadPromise[c]
    \/ worker'[c] # worker[c]
    \/ trace'[c] # trace[c]

\* The calls made on the shared external manager.
IsExternalCall(e) == e[1] = "externalManager"

\* C17: no step (a load(), a worker's response, an image's load event, a
\* reaction job) changes the internal manager, images, promises, worker or
\* calls of two different load() calls; every call that missed the cache
\* created exactly one worker of its own; and such a call makes exactly two
\* itemStart calls on the shared external manager, at most two terminal
\* calls, and exactly two once its promise has settled.
C17_ConcurrentIsolation ==
    [][\A c \in Calls :
        /\ \A d \in Calls : (c # d /\ Touched(c)) => ~Touched(d)
        /\ (worker'[c].created /\ trace'[c] # trace[c]) =>
              LET calls == SelectSeq(trace'[c], IsExternalCall)
                  starts == Cardinality({i \in DOMAIN calls : calls[i][2] = "itemStart"})
                  terminals == Len(calls) - starts
              IN  /\ starts = 2
                  /\ terminals <= 2
                  /\ loadPromise'[c].state \in {"resolved", "rejected"} => terminals = 2
                  /\ Count(c, <<"Worker", "new", "workerURL">>)' = 1
      ]_vars

\* Both calls missed the cache and overlap: the later call has resolved
\* while the earlier call's worker has not answered yet.
C17_Witness ==
    \E c, d \in Calls :
        /\ c < d
        /\ Generated(c) /\ worker[c].responses = 0
        /\ Generated(d) /\ loadPromise[d].state = "resolved"

\* --------------------------------------------------------------------- C18

\* The store holds both keys or neither.
Whole(store) == (store["smaa-search"] = null) <=> (store["smaa-area"] = null)

\* A localStorage.setItem call threw in this step.
WriteFailed ==
    \E c \in Calls :
        /\ Len(uncaught'[c]) > Len(uncaught[c])
        /\ uncaught'[c][Len(uncaught'[c])] = "QuotaExceededError"

\* C18: a step in which no store write fails takes a store that holds both
\* keys or neither to a store that holds both keys or neither; so from a
\* store that starts that way every cache read, also of a load() that
\* overlaps other loads, sees both keys or neither.
C18_NoPartialStore ==
    [][(Whole(localStorage) /\ ~WriteFailed) =>
          /\ Whole(localStorage')
          /\ \A c \in Calls : (LoadStep(c) /\ ReadsCache) =>
                (cachedURLs[1] = null <=> cachedURLs[2] = null)
      ]_vars

\* One call wrote both keys into the store, no write ever failed, and a
\* later call read the store and found both.
C18_Witness ==
    \E c, d \in Calls :
        /\ GeneratedForCache(c)
        /\ Count(c, <<"localStorage", "setItem", "smaa-area">>) = 1
        /\ \A e \in Calls : uncaught[e] = <<>>
        /\ CacheHit(d) /\ promise[d].value = <<"data:A", "data:B">>
        /\ Whole(localStorage)

\* --------------------------------------------------------------------- C19

\* How many calls of a sequence are calls of method op.
CountOp(calls, op) == Cardinality({i \in DOMAIN calls : calls[i][2] = op})

\* C19: a settled promise never changes again; per load(), onLoad and
\* onError are each called at most once and never both, resolve/reject is
\* called at most once, onLoad is called only when the promise resolves and
\* onError only when it rejects, and a load() with an itemError call on the
\* external tracker has no itemEnd call on it.
C19_OutcomeExclusivity ==
    [][\A c \in Calls :
        /\ loadPromise[c].state \in {"resolved", "rejected"} =>
              loadPromise'[c] = loadPromise[c]
        /\ trace'[c] # trace[c] =>
              LET calls == SelectSeq(trace'[c], IsOutcomeCall)
                  onLoads == CountOp(calls, "onLoad")
                  onErrors == CountOp(calls, "onError")
              IN  /\ onLoads + onErrors <= 1
                  /\ CountOp(calls, "resolve") + CountOp(calls, "reject") <= 1
                  /\ onLoads = 1 => loadPromise'[c].state = "resolved"
                  /\ onErrors = 1 => loadPromise'[c].state = "rejected"
                  /\ loadPromise'[c].state = "resolved" => onLoads = 1
                  /\ CountOp(calls, "itemError") > 0 => CountOp(calls, "itemEnd") = 0
      ]_vars

\* One load() resolved with onLoad called, another rejected with onError
\* called.
C19_Witness ==
    \E c, d \in Calls :
        /\ loadPromise[c].state = "resolved"
        /\ Count(c, <<"callback", "onLoad", "result">>) = 1
        /\ loadPromise[d].state = "rejected"
        /\ Count(d, <<"callback", "onError", "E2">>) = 1

====
